---- MODULE Spec2Model ----
(***************************************************************************)
(* The multigrid cycle engine of deal.II:                                  *)
(*   include/deal.II/multigrid/multigrid.templates.h                       *)
(*                                                                         *)
(* The Multigrid object is modelled as a state machine.  Its members       *)
(* (minlevel, maxlevel, cycle_type, debug, the four edge matrix pointers   *)
(* and the four level-indexed vector stores) are the variables; the        *)
(* recursion of level_v_step / level_step is an explicit call stack whose  *)
(* frames advance one statement group at a time.  Vectors are scalars      *)
(* (one degree of freedom per level), so every operator of the hierarchy   *)
(* is a multiplication.                                                    *)
(***************************************************************************)
EXTENDS Integers, Sequences, FiniteSets, TLC

\* Finest level of the bound level-operator collection.
MaxLevel == 3

\* Number of public calls that change the object in one behaviour.
MaxCalls == 3

\* unsigned int arithmetic (set_minlevel); the width is scaled down to 16
\* bits because the model checker's integers are 32 bit signed.
UIntModulus == 2^16

VARIABLES
  matrix,      \* level range of the level-operator collection (*matrix)
  collab,      \* the bound smoother / transfer collaborators
  minlevel,    \* Multigrid::minlevel
  maxlevel,    \* Multigrid::maxlevel
  cycle_type,  \* Multigrid::cycle_type
  debug,       \* Multigrid::debug
  edge_out,    \* Multigrid::edge_out  != 0
  edge_in,     \* Multigrid::edge_in   != 0
  edge_down,   \* Multigrid::edge_down != 0
  edge_up,     \* Multigrid::edge_up   != 0
  defect,      \* Multigrid::defect    (level -> vector)
  solution,    \* Multigrid::solution
  t,           \* Multigrid::t
  defect2,     \* Multigrid::defect2
  stack,       \* call stack of level_v_step / level_step frames
  deallog,     \* number of lines written to deallog by the last cycle
  calls,       \* the calls the last cycle made, in order: the collaborator
               \* calls and the calls of level_v_step / level_step
  defect_in,   \* the defect store as it was when the last cycle was called
  entry,       \* the kind of public call that changed the object last
  err,         \* the exception a failed range check raised
  ncalls       \* number of public calls so far that changed the object

vars == <<matrix, collab, minlevel, maxlevel, cycle_type, debug, edge_out,
          edge_in, edge_down, edge_up, defect, solution, t, defect2, stack,
          deallog, calls, defect_in, entry, err, ncalls>>

Cycles == {"v_cycle", "w_cycle", "f_cycle"}

\* The whole state as one record, so that an operation is a function on it.
Pack ==
  [matrix |-> matrix, collab |-> collab, minlevel |-> minlevel,
   maxlevel |-> maxlevel, cycle_type |-> cycle_type, debug |-> debug,
   edge_out |-> edge_out, edge_in |-> edge_in, edge_down |-> edge_down,
   edge_up |-> edge_up, defect |-> defect, solution |-> solution, t |-> t,
   defect2 |-> defect2, stack |-> stack, deallog |-> deallog,
   calls |-> calls, defect_in |-> defect_in, entry |-> entry, err |-> err,
   ncalls |-> ncalls]

Install(s) ==
  /\ matrix' = s.matrix
  /\ collab' = s.collab
  /\ minlevel' = s.minlevel
  /\ maxlevel' = s.maxlevel
  /\ cycle_type' = s.cycle_type
  /\ debug' = s.debug
  /\ edge_out' = s.edge_out
  /\ edge_in' = s.edge_in
  /\ edge_down' = s.edge_down
  /\ edge_up' = s.edge_up
  /\ defect' = s.defect
  /\ solution' = s.solution
  /\ t' = s.t
  /\ defect2' = s.defect2
  /\ stack' = s.stack
  /\ deallog' = s.deallog
  /\ calls' = s.calls
  /\ defect_in' = s.defect_in
  /\ entry' = s.entry
  /\ err' = s.err
  /\ ncalls' = s.ncalls

----------------------------------------------------------------------------
(* Collaborators: scalar operators.                                        *)

\* The bound smoothers: the damping of pre_smooth and of post_smooth.
\* Damping 0 is a smoother that leaves the solution unchanged.
Collaborators ==
  { [pre |-> 0, post |-> 0], [pre |-> 1, post |-> 0], [pre |-> 0, post |-> 1] }

\* The level operator A_level: A_0 = 1, A_1 = 2, and 1 above.
LevelMatrix(level) == IF level = 1 THEN 2 ELSE 1

\* matrix->vmult(level, dst, src): dst = A_level * src
MatrixVmult(level, src) == LevelMatrix(level) * src

\* edge->vmult / edge->Tvmult (level, dst, src): dst = E * src, E = 1
EdgeVmult(level, src) == src

\* edge->vmult_add(level, dst, src): dst += E * src, E = 1
EdgeVmultAdd(level, dst, src) == dst + src

\* smoother.smooth(level, u, rhs): u += omega * (rhs - A_level * u)
Smooth(omega, level, u, rhs) == u + omega * (rhs - MatrixVmult(level, u))

\* transfer->restrict_and_add(level, dst, src): dst += R * src, R = 1
RestrictAndAdd(level, dst, src) == dst + src

\* transfer->prolongate(level, dst, src): dst = P * src, P = 1
Prolongate(level, src) == src

\* (*coarse)(level, dst, src): dst = A_0^-1 * src, with A_0 = 1
CoarseSolve(level, src) == src

----------------------------------------------------------------------------
(* Vector and level-object primitives.                                     *)

\* MGLevelObject::resize(lo, hi): fresh, empty (zero) vectors on lo..hi
Resize(lo, hi) == [l \in lo..hi |-> 0]

\* Vector::sadd(s, a, V): this = s*this + a*V
Sadd(this, s, a, V) == s * this + a * V

\* Vector::equ(a, V): this = a*V
Equ(a, V) == a * V

\* Number of deallog lines a block writes: one per statement whose
\* threshold the verbosity exceeds.
RECURSIVE LogLines(_, _)
LogLines(d, thresholds) ==
  IF thresholds = <<>> THEN 0
  ELSE (IF d > Head(thresholds) THEN 1 ELSE 0) + LogLines(d, Tail(thresholds))

Call(op, level, dst, src) == [op |-> op, level |-> level, dst |-> dst, src |-> src]

Top(s) == s.stack[Len(s.stack)]

Frame(proc, level, cycle) ==
  [proc |-> proc, level |-> level, cycle |-> cycle, pc |-> "entry"]

Goto(s, pc) == [s EXCEPT !.stack[Len(s.stack)].pc = pc]

Return(s) == [s EXCEPT !.stack = SubSeq(s.stack, 1, Len(s.stack) - 1)]

\* The call proc(level, cycle): a new frame, and its record in the calls.
Invoke(s, proc, level, cycle) ==
  [s EXCEPT !.stack = Append(@, Frame(proc, level, cycle)),
            !.calls = Append(@, [op |-> proc, level |-> level, cycle |-> cycle])]

Idle == stack = <<>>

----------------------------------------------------------------------------
(* Range management.                                                       *)

\* The range checks without the third: min_level <= max_level is not checked.
RangeOK_unordered(s, min_level, max_level) ==
  /\ min_level >= s.matrix.minlevel
  /\ max_level <= s.matrix.maxlevel

\* The three range checks of reinit.
RangeOK(s, min_level, max_level) ==
  /\ min_level >= s.matrix.minlevel
  /\ max_level <= s.matrix.maxlevel
  /\ min_level <= max_level

\* A failed check: the exception leaves the function at the check.
Raise(s, exc) == [s EXCEPT !.err = exc]

\* reinit with the window assigned before the range is checked.
reinit_checks_late(s, min_level, max_level) ==
  LET s1 == [s EXCEPT !.minlevel = min_level, !.maxlevel = max_level]
  IN  IF ~RangeOK(s, min_level, max_level)
      THEN Raise(s1, "ExcLowerRangeType")
      ELSE [s1 EXCEPT !.defect = Resize(min_level, max_level)]

reinit(s, min_level, max_level) ==
  IF ~RangeOK(s, min_level, max_level)
  THEN Raise(s, "ExcLowerRangeType")
  ELSE [s EXCEPT !.minlevel = min_level,
                 !.maxlevel = max_level,
                 !.defect = Resize(min_level, max_level)]

set_maxlevel(s, l) == reinit(s, s.minlevel, l)

\* set_minlevel with a subtraction that stops at zero instead of wrapping.
set_minlevel_saturating(s, l, relative) ==
  LET new_minlevel == IF relative
                      THEN (IF l > s.maxlevel THEN 0 ELSE s.maxlevel - l)
                      ELSE l
  IN  reinit(s, new_minlevel, s.maxlevel)

set_minlevel(s, l, relative) ==
  LET new_minlevel == IF relative THEN (s.maxlevel - l) % UIntModulus ELSE l
  IN  reinit(s, new_minlevel, s.maxlevel)

\* The members a setter can change.
Members(s) == <<s.minlevel, s.maxlevel, s.cycle_type, s.debug, s.edge_out, s.edge_in, s.edge_down, s.edge_up, s.defect>>

\* A setter call that leaves the object as it was is not counted.
Counted(s0, s1) ==
  IF Members(s1) = Members(s0)
  THEN s1
  ELSE [s1 EXCEPT !.ncalls = @ + 1, !.entry = "setter"]

\* A public call is made between cycles; a failed range check has ended
\* the program.
CanCall == Idle /\ ncalls < MaxCalls /\ err = "none"

LevelArgs == 0 .. (MaxLevel + 1)

Reinit ==
  /\ CanCall
  /\ \E min_level \in LevelArgs, max_level \in LevelArgs :
       Install(Counted(Pack, reinit(Pack, min_level, max_level)))

SetMaxlevel ==
  /\ CanCall
  /\ \E l \in LevelArgs : Install(Counted(Pack, set_maxlevel(Pack, l)))

SetMinlevel ==
  /\ CanCall
  /\ \E l \in LevelArgs, relative \in BOOLEAN :
       Install(Counted(Pack, set_minlevel(Pack, l, relative)))

----------------------------------------------------------------------------
(* Configuration setters.                                                  *)

set_cycle(s, c) == [s EXCEPT !.cycle_type = c]

set_debug(s, d) == [s EXCEPT !.debug = d]

set_edge_matrices(s) == [s EXCEPT !.edge_out = TRUE, !.edge_in = TRUE]

set_edge_flux_matrices(s) == [s EXCEPT !.edge_down = TRUE, !.edge_up = TRUE]

SetCycle ==
  /\ CanCall
  /\ \E c \in Cycles : Install(Counted(Pack, set_cycle(Pack, c)))

SetDebug ==
  /\ CanCall
  /\ \E d \in 0 .. 3 : Install(Counted(Pack, set_debug(Pack, d)))

SetEdgeMatrices ==
  /\ CanCall
  /\ Install(Counted(Pack, set_edge_matrices(Pack)))

SetEdgeFluxMatrices ==
  /\ CanCall
  /\ Install(Counted(Pack, set_edge_flux_matrices(Pack)))

----------------------------------------------------------------------------
(* The external driver: it fills the defect store (copy_to_mg) and calls   *)
(* cycle() or vcycle(), or it calls them again without refilling.          *)

FineDefects == {4}
CoarseDefects == {0, 1}

copy_to_mg(s, fine, coarse) ==
  [s EXCEPT !.defect = [l \in DOMAIN s.defect |->
                          IF l = s.maxlevel THEN fine ELSE coarse]]

Driver(s, refill, fine, coarse) == IF refill THEN copy_to_mg(s, fine, coarse) ELSE s

----------------------------------------------------------------------------
(* cycle() and vcycle(): shape the working stores, then start the          *)
(* recursion on maxlevel.                                                  *)

\* What both entry points record before the recursion starts.
Begin(s, name) ==
  [s EXCEPT !.entry = name, !.ncalls = @ + 1, !.calls = <<>>, !.deallog = 0,
            !.defect_in = s.defect]

\* cycle with the stores resized only when their range is not the window:
\* the vectors of the last cycle are kept.
cycle_keeps_vectors(s) ==
  LET window == s.minlevel .. s.maxlevel
      fresh == Resize(s.minlevel, s.maxlevel)
      s1 == [Begin(s, "cycle") EXCEPT
               !.solution = IF DOMAIN @ = window THEN @ ELSE fresh,
               !.t = IF DOMAIN @ = window THEN @ ELSE fresh,
               !.defect2 = IF s.cycle_type # "v_cycle" THEN fresh ELSE @]
  IN  IF s.cycle_type = "v_cycle"
      THEN Invoke(s1, "level_v_step", s.maxlevel, "v_cycle")
      ELSE Invoke(s1, "level_step", s.maxlevel, s.cycle_type)

cycle(s) ==
  LET fresh == Resize(s.minlevel, s.maxlevel)
      s1 == [Begin(s, "cycle") EXCEPT
               !.solution = fresh,
               !.t = fresh,
               !.defect2 = IF s.cycle_type # "v_cycle" THEN fresh ELSE @]
  IN  IF s.cycle_type = "v_cycle"
      THEN Invoke(s1, "level_v_step", s.maxlevel, "v_cycle")
      ELSE Invoke(s1, "level_step", s.maxlevel, s.cycle_type)

\* vcycle as another name of cycle: the stored cycle type decides.
vcycle_as_cycle(s) == [cycle(s) EXCEPT !.entry = "vcycle"]

vcycle(s) ==
  LET fresh == Resize(s.minlevel, s.maxlevel)
      s1 == [Begin(s, "vcycle") EXCEPT !.solution = fresh, !.t = fresh]
  IN  Invoke(s1, "level_v_step", s.maxlevel, "v_cycle")

CycleCall ==
  /\ CanCall
  /\ \E refill \in BOOLEAN, fine \in FineDefects, coarse \in CoarseDefects :
       Install(cycle(Driver(Pack, refill, fine, coarse)))

VcycleCall ==
  /\ CanCall
  /\ \E refill \in BOOLEAN, fine \in FineDefects, coarse \in CoarseDefects :
       Install(vcycle(Driver(Pack, refill, fine, coarse)))

----------------------------------------------------------------------------
(* level_v_step(level).  The statements are grouped as in the source; a    *)
(* frame runs from its entry to the recursive call (or to the return on    *)
(* the coarsest level) in one step, and from the return of that call to    *)
(* its own return in another.                                              *)

\* level == minlevel: the coarse solver
v_coarse(s) ==
  LET level == Top(s).level
  IN  [s EXCEPT
        !.deallog = @ + LogLines(s.debug, <<0, 2, 0>>),
        !.calls = Append(@, Call("coarse", level, s.solution[level], s.defect[level])),
        !.solution[level] = CoarseSolve(level, s.defect[level])]

\* v_pre_smooth with the smoother call under the `debug>1` test of the
\* line before it.
v_pre_smooth_when_verbose(s) ==
  LET level == Top(s).level
  IN  IF s.debug > 1
      THEN [s EXCEPT
             !.deallog = @ + LogLines(s.debug, <<0, 2, 1, 2>>),
             !.calls = Append(@, Call("pre_smooth", level, s.solution[level],
                                      s.defect[level])),
             !.solution[level] = Smooth(s.collab.pre, level, s.solution[level],
                                        s.defect[level])]
      ELSE [s EXCEPT !.deallog = @ + LogLines(s.debug, <<0, 2, 1, 2>>)]

\* pre_smooth->smooth(level, solution[level], defect[level])
v_pre_smooth(s) ==
  LET level == Top(s).level
  IN  [s EXCEPT
        !.deallog = @ + LogLines(s.debug, <<0, 2, 1, 2>>),
        !.calls = Append(@, Call("pre_smooth", level, s.solution[level], s.defect[level])),
        !.solution[level] = Smooth(s.collab.pre, level, s.solution[level], s.defect[level])]

\* v_residual with the sadd left out: t stays A*solution.
v_residual_unsubtracted(s) ==
  LET level == Top(s).level
      t1 == MatrixVmult(level, s.solution[level])
  IN  [s EXCEPT
        !.calls = Append(@, Call("vmult", level, s.t[level], s.solution[level])),
        !.t[level] = IF s.edge_out
                     THEN EdgeVmultAdd(level, t1, s.solution[level])
                     ELSE t1]

\* v_residual with the residual formed in defect[level] instead of t[level].
v_residual_in_place(s) ==
  LET level == Top(s).level
      t1 == MatrixVmult(level, s.solution[level])
      t2 == IF s.edge_out THEN EdgeVmultAdd(level, t1, s.solution[level]) ELSE t1
  IN  [s EXCEPT
        !.calls = Append(@, Call("vmult", level, s.t[level], s.solution[level])),
        !.defect[level] = Sadd(@, 1, -1, t2),
        !.t[level] = Sadd(s.defect[level], 1, -1, t2)]

\* t = A*solution (+ edge_out*solution); t = defect - t
v_residual(s) ==
  LET level == Top(s).level
      t1 == MatrixVmult(level, s.solution[level])
      t2 == IF s.edge_out THEN EdgeVmultAdd(level, t1, s.solution[level]) ELSE t1
      c1 == Append(s.calls, Call("vmult", level, s.t[level], s.solution[level]))
      c2 == IF s.edge_out
            THEN Append(c1, Call("edge_out", level, t1, s.solution[level]))
            ELSE c1
  IN  [s EXCEPT
        !.deallog = @ + LogLines(s.debug, <<1, 2>>)
                      + (IF s.edge_out THEN LogLines(s.debug, <<2>>) ELSE 0),
        !.calls = c2,
        !.t[level] = Sadd(t2, -1, 1, s.defect[level])]

\* v_restrict with the restriction written over defect[level-1]: the
\* vector is set to zero before restrict_and_add.
v_restrict_overwrites(s) ==
  LET level == Top(s).level
      e == EdgeVmult(level, s.solution[level])
  IN  [s EXCEPT
        !.t[level - 1] = IF s.edge_down THEN e ELSE @,
        !.calls = Append(@, Call("restrict", level, 0, s.t[level])),
        !.defect[level - 1] = RestrictAndAdd(level, 0, s.t[level])]

\* edge_down into t[level-1] and out of defect[level-1]; restrict_and_add
v_restrict(s) ==
  LET level == Top(s).level
      e == EdgeVmult(level, s.solution[level])
      d1 == IF s.edge_down THEN s.defect[level - 1] - e ELSE s.defect[level - 1]
      c1 == IF s.edge_down
            THEN Append(s.calls, Call("edge_down", level, s.t[level - 1], s.solution[level]))
            ELSE s.calls
  IN  [s EXCEPT
        !.t[level - 1] = IF s.edge_down THEN e ELSE @,
        !.calls = Append(c1, Call("restrict", level, d1, s.t[level])),
        !.defect[level - 1] = RestrictAndAdd(level, d1, s.t[level])]

\* v_descend with the recursive call made on level instead of level-1.
v_descend_same_level(s) ==
  LET level == Top(s).level
      s1 == Goto([s EXCEPT !.solution[level - 1] = 0], "up")
  IN  Invoke(s1, "level_v_step", level, "v_cycle")

\* solution[level-1] = 0; level_v_step(level-1)
v_descend(s) ==
  LET level == Top(s).level
      s1 == Goto([s EXCEPT !.solution[level - 1] = 0], "up")
  IN  Invoke(s1, "level_v_step", level - 1, "v_cycle")

\* t = 0; prolongate; solution += t
v_prolongate(s) ==
  LET level == Top(s).level
      p == Prolongate(level, s.solution[level - 1])
  IN  [s EXCEPT
        !.deallog = @ + LogLines(s.debug, <<2>>),
        !.calls = Append(@, Call("prolongate", level, 0, s.solution[level - 1])),
        !.t[level] = p,
        !.solution[level] = @ + p]

\* edge_in and edge_up, each through t[level], out of defect[level]
v_edge(s) ==
  LET level == Top(s).level
      ein == EdgeVmult(level, s.solution[level])
      eup == EdgeVmult(level, s.solution[level - 1])
      t1 == IF s.edge_in THEN ein ELSE s.t[level]
      d1 == IF s.edge_in THEN s.defect[level] - ein ELSE s.defect[level]
      c1 == IF s.edge_in
            THEN Append(s.calls, Call("edge_in", level, s.t[level], s.solution[level]))
            ELSE s.calls
      c2 == IF s.edge_up
            THEN Append(c1, Call("edge_up", level, t1, s.solution[level - 1]))
            ELSE c1
  IN  [s EXCEPT
        !.deallog = @ + LogLines(s.debug, <<2>>),
        !.calls = c2,
        !.t[level] = IF s.edge_up THEN eup ELSE t1,
        !.defect[level] = IF s.edge_up THEN d1 - eup ELSE d1]

\* post_smooth->smooth(level, solution[level], defect[level])
v_post_smooth(s) ==
  LET level == Top(s).level
  IN  [s EXCEPT
        !.deallog = @ + LogLines(s.debug, <<1, 2, 1>>),
        !.calls = Append(@, Call("post_smooth", level, s.solution[level], s.defect[level])),
        !.solution[level] = Smooth(s.collab.post, level, s.solution[level], s.defect[level])]

\* level_v_step on the coarsest level, entry to return
v_base(s) == Return(v_coarse(s))

\* v_down with the pre-smoothing left out.
v_down_unsmoothed(s) == v_descend(v_restrict(v_residual(s)))

\* level_v_step above the coarsest level, entry to the recursive call
v_down(s) == v_descend(v_restrict(v_residual(v_pre_smooth(s))))

\* level_v_step from the return of the recursive call to its own return
v_up(s) == Return(v_post_smooth(v_edge(v_prolongate(s))))

\* The place the frame on top of the stack is at.
At(proc, pc) == ~Idle /\ stack[Len(stack)].proc = proc /\ stack[Len(stack)].pc = pc

TopLevel == stack[Len(stack)].level

VCoarse == At("level_v_step", "entry") /\ TopLevel = minlevel /\ Install(v_base(Pack))

VDown == At("level_v_step", "entry") /\ TopLevel # minlevel /\ Install(v_down(Pack))

VUp == At("level_v_step", "up") /\ Install(v_up(Pack))

----------------------------------------------------------------------------
(* level_step(level, cycle), grouped the same way; the second descent is   *)
(* a step of its own.                                                      *)

\* defect2[level-1] = restriction of defect2[level];
\* t[level] = defect[level] - defect2[level]
g_local(s) ==
  LET level == Top(s).level
      below == level > s.minlevel
      d2 == IF below
            THEN [s.defect2 EXCEPT
                    ![level - 1] = RestrictAndAdd(level, 0, s.defect2[level])]
            ELSE s.defect2
      t1 == Equ(-1, d2[level])
  IN  [s EXCEPT
        !.deallog = @ + LogLines(s.debug, <<0, 2>>),
        !.calls = IF below
                  THEN Append(@, Call("restrict", level, 0, s.defect2[level]))
                  ELSE @,
        !.defect2 = d2,
        !.t[level] = t1 + s.defect[level]]

\* level == minlevel: the coarse solver on t[level]
g_coarse(s) ==
  LET level == Top(s).level
  IN  [s EXCEPT
        !.deallog = @ + LogLines(s.debug, <<0>>),
        !.calls = Append(@, Call("coarse", level, s.solution[level], s.t[level])),
        !.solution[level] = CoarseSolve(level, s.t[level])]

\* pre_smooth->smooth(level, solution[level], t[level])
g_pre_smooth(s) ==
  LET level == Top(s).level
  IN  [s EXCEPT
        !.deallog = @ + LogLines(s.debug, <<1, 2>>),
        !.calls = Append(@, Call("pre_smooth", level, s.solution[level], s.t[level])),
        !.solution[level] = Smooth(s.collab.pre, level, s.solution[level], s.t[level])]

\* t = A*solution (+ edge_out*solution)
g_residual(s) ==
  LET level == Top(s).level
      t1 == MatrixVmult(level, s.solution[level])
      c1 == Append(s.calls, Call("vmult", level, s.t[level], s.solution[level]))
  IN  [s EXCEPT
        !.deallog = @ + LogLines(s.debug, <<1>>),
        !.calls = IF s.edge_out
                  THEN Append(c1, Call("edge_out", level, t1, s.solution[level]))
                  ELSE c1,
        !.t[level] = IF s.edge_out
                     THEN EdgeVmultAdd(level, t1, s.solution[level])
                     ELSE t1]

\* g_restrict with both contributions put in defect[level-1], as
\* level_v_step does.
g_restrict_into_defect(s) ==
  LET level == Top(s).level
      d1 == IF s.edge_down
            THEN EdgeVmultAdd(level, s.defect[level - 1], s.solution[level])
            ELSE s.defect[level - 1]
  IN  [s EXCEPT
        !.calls = Append(@, Call("restrict", level, d1, s.t[level])),
        !.defect[level - 1] = RestrictAndAdd(level, d1, s.t[level])]

\* edge_down and the restriction of t[level], both added to defect2[level-1]
g_restrict(s) ==
  LET level == Top(s).level
      d1 == IF s.edge_down
            THEN EdgeVmultAdd(level, s.defect2[level - 1], s.solution[level])
            ELSE s.defect2[level - 1]
      c1 == IF s.edge_down
            THEN Append(s.calls,
                        Call("edge_down", level, s.defect2[level - 1], s.solution[level]))
            ELSE s.calls
  IN  [s EXCEPT
        !.calls = Append(c1, Call("restrict", level, d1, s.t[level])),
        !.defect2[level - 1] = RestrictAndAdd(level, d1, s.t[level])]

\* g_descend without `solution[level-1] = 0`.
g_descend_keeps_solution(s) ==
  LET f == Top(s)
  IN  Invoke(Goto(s, "second"), "level_step", f.level - 1, f.cycle)

\* g_descend with the whole solution store set to zero before the call.
g_descend_zero_all(s) ==
  LET f == Top(s)
      s1 == Goto([s EXCEPT !.solution = [l \in DOMAIN @ |-> 0]], "second")
  IN  Invoke(s1, "level_step", f.level - 1, f.cycle)

\* solution[level-1] = 0; level_step(level-1, cycle)
g_descend(s) ==
  LET f == Top(s)
      s1 == Goto([s EXCEPT !.solution[f.level - 1] = 0], "second")
  IN  Invoke(s1, "level_step", f.level - 1, f.cycle)

\* g_second with the second descent made on every level above minlevel.
g_second_on_every_level(s) ==
  LET f == Top(s)
      s1 == Goto(s, "up")
  IN  IF f.level > s.minlevel /\ f.cycle = "w_cycle"
      THEN Invoke(s1, "level_step", f.level - 1, f.cycle)
      ELSE IF f.level > s.minlevel /\ f.cycle = "f_cycle"
      THEN Invoke(s1, "level_step", f.level - 1, "v_cycle")
      ELSE s1

\* g_second with the F-cycle repeating itself, as the W-cycle does.
g_second_repeats_f(s) ==
  LET f == Top(s)
      s1 == Goto(s, "up")
  IN  IF f.level > s.minlevel + 1 /\ f.cycle # "v_cycle"
      THEN Invoke(s1, "level_step", f.level - 1, f.cycle)
      ELSE s1

\* The second descent: W repeats itself, F does a V-cycle, above minlevel+1.
g_second(s) ==
  LET f == Top(s)
      s1 == Goto(s, "up")
  IN  IF f.level > s.minlevel + 1 /\ f.cycle = "w_cycle"
      THEN Invoke(s1, "level_step", f.level - 1, f.cycle)
      ELSE IF f.level > s.minlevel + 1 /\ f.cycle = "f_cycle"
      THEN Invoke(s1, "level_step", f.level - 1, "v_cycle")
      ELSE s1

\* t = 0; prolongate; solution += t
g_prolongate(s) ==
  LET level == Top(s).level
      p == Prolongate(level, s.solution[level - 1])
  IN  [s EXCEPT
        !.calls = Append(@, Call("prolongate", level, 0, s.solution[level - 1])),
        !.t[level] = p,
        !.solution[level] = @ + p]

\* g_edge with t[level] cleared when neither edge_in nor edge_up is set.
g_edge_clears_t(s) ==
  LET level == Top(s).level
      t1 == IF s.edge_in THEN EdgeVmult(level, s.solution[level]) ELSE 0
      t2 == IF s.edge_up THEN EdgeVmult(level, s.solution[level - 1]) ELSE t1
      c1 == IF s.edge_in
            THEN Append(s.calls, Call("edge_in", level, s.t[level], s.solution[level]))
            ELSE s.calls
      c2 == IF s.edge_up
            THEN Append(c1, Call("edge_up", level, t1, s.solution[level - 1]))
            ELSE c1
  IN  [s EXCEPT
        !.deallog = @ + LogLines(s.debug, <<2>>),
        !.calls = c2,
        !.t[level] = Sadd(t2, -1, -1, s.defect2[level]) + s.defect[level]]

\* edge_in and edge_up, each written to t[level];
\* t = -t - defect2[level]; t += defect[level]
g_edge(s) ==
  LET level == Top(s).level
      t1 == IF s.edge_in THEN EdgeVmult(level, s.solution[level]) ELSE s.t[level]
      t2 == IF s.edge_up THEN EdgeVmult(level, s.solution[level - 1]) ELSE t1
      c1 == IF s.edge_in
            THEN Append(s.calls, Call("edge_in", level, s.t[level], s.solution[level]))
            ELSE s.calls
      c2 == IF s.edge_up
            THEN Append(c1, Call("edge_up", level, t1, s.solution[level - 1]))
            ELSE c1
  IN  [s EXCEPT
        !.deallog = @ + LogLines(s.debug, <<2>>),
        !.calls = c2,
        !.t[level] = Sadd(t2, -1, -1, s.defect2[level]) + s.defect[level]]

\* post_smooth->smooth(level, solution[level], t[level])
g_post_smooth(s) ==
  LET level == Top(s).level
  IN  [s EXCEPT
        !.deallog = @ + LogLines(s.debug, <<1, 1>>),
        !.calls = Append(@, Call("post_smooth", level, s.solution[level], s.t[level])),
        !.solution[level] = Smooth(s.collab.post, level, s.solution[level], s.t[level])]

\* level_step on the coarsest level, entry to return
g_base(s) == Return(g_coarse(g_local(s)))

\* level_step above the coarsest level, entry to the first recursive call
g_down(s) == g_descend(g_restrict(g_residual(g_pre_smooth(g_local(s)))))

\* level_step from the return of the last recursive call to its own return
g_up(s) == Return(g_post_smooth(g_edge(g_prolongate(s))))

\* One step of the frame on top of the stack.
Step(s) ==
  LET f == Top(s)
  IN  IF f.proc = "level_v_step"
      THEN IF f.pc = "up" THEN v_up(s)
           ELSE IF f.level = s.minlevel THEN v_base(s) ELSE v_down(s)
      ELSE IF f.pc = "up" THEN g_up(s)
           ELSE IF f.pc = "second" THEN g_second(s)
           ELSE IF f.level = s.minlevel THEN g_base(s) ELSE g_down(s)

\* The recursion run until the outermost frame has returned.
RECURSIVE Run(_)
Run(s) == IF s.stack = <<>> THEN s ELSE Run(Step(s))

GCoarse == At("level_step", "entry") /\ TopLevel = minlevel /\ Install(g_base(Pack))

GDown == At("level_step", "entry") /\ TopLevel # minlevel /\ Install(g_down(Pack))

GSecond == At("level_step", "second") /\ Install(g_second(Pack))

GUp == At("level_step", "up") /\ Install(g_up(Pack))

----------------------------------------------------------------------------
(* The specification.                                                      *)

\* After construction: the window is the whole range of the level
\* operators, the stores are empty, no edge matrix is set, debug is 0.
Init ==
  /\ matrix \in {[minlevel |-> m, maxlevel |-> MaxLevel] : m \in {0, 1}}
  /\ collab \in Collaborators
  /\ minlevel = matrix.minlevel
  /\ maxlevel = matrix.maxlevel
  /\ cycle_type \in Cycles
  /\ debug = 0
  /\ edge_out = FALSE
  /\ edge_in = FALSE
  /\ edge_down = FALSE
  /\ edge_up = FALSE
  /\ defect = Resize(minlevel, maxlevel)
  /\ solution = Resize(minlevel, maxlevel)
  /\ t = Resize(minlevel, maxlevel)
  /\ defect2 = Resize(minlevel, maxlevel)
  /\ stack = <<>>
  /\ deallog = 0
  /\ calls = <<>>
  /\ defect_in = defect
  /\ entry = "Multigrid"
  /\ err = "none"
  /\ ncalls = 0

Next ==
  \/ Reinit
  \/ SetMaxlevel
  \/ SetMinlevel
  \/ SetCycle
  \/ SetDebug
  \/ SetEdgeMatrices
  \/ SetEdgeFluxMatrices
  \/ CycleCall
  \/ VcycleCall
  \/ VCoarse
  \/ VDown
  \/ VUp
  \/ GCoarse
  \/ GDown
  \/ GSecond
  \/ GUp

Spec == Init /\ [][Next]_vars

----------------------------------------------------------------------------
(* Properties.                                                             *)

\* The cycle started through the entry point `name` has returned, and no
\* call has changed the object since.
Returned(name) == Idle /\ entry = name /\ err = "none"

NoEdges == ~edge_out /\ ~edge_in /\ ~edge_down /\ ~edge_up

NoopSmoothers == collab.pre = 0 /\ collab.post = 0

\* The two-level hierarchy with A0 = 1, A1 = 2, identity transfer, no-op
\* smoothers and no edge operators, after one cycle() of type V.
TwoLevelV ==
  /\ Returned("cycle")
  /\ cycle_type = "v_cycle"
  /\ minlevel = 0
  /\ maxlevel = 1
  /\ NoopSmoothers
  /\ NoEdges

\* C1: in the two-level hierarchy a V cycle() ends with
\* solution[0] = A0^-1 (defect[0] + restrict(defect[1] - A1*0)) and
\* solution[1] = prolongate(solution[0]); from defect[1] = 4, defect[0] = 0
\* it ends with solution[0] = 4 and solution[1] = 4.
C1_TwoLevelVCycle ==
  TwoLevelV =>
    /\ solution[0] = CoarseSolve(0, RestrictAndAdd(1, defect_in[0],
                                     defect_in[1] - MatrixVmult(1, 0)))
    /\ solution[1] = Prolongate(1, solution[0])
    /\ (defect_in[1] = 4 /\ defect_in[0] = 0 => solution[0] = 4 /\ solution[1] = 4)

C1_Witness ==
  TwoLevelV /\ defect_in[1] = 4 /\ defect_in[0] = 0 /\ solution[1] = 4

\* The state cycle() hands to the recursion, rebuilt after the cycle.
Prepared ==
  LET fresh == Resize(minlevel, maxlevel)
  IN  [Pack EXCEPT !.defect = defect_in, !.solution = fresh, !.t = fresh,
                   !.defect2 = fresh, !.calls = <<>>, !.deallog = 0]

C2_Witness ==
  /\ Returned("cycle")
  /\ cycle_type = "v_cycle"
  /\ NoEdges
  /\ \E l \in DOMAIN defect_in : defect_in[l] # 0

\* C2: with no edge operator set, level_v_step(maxlevel) and
\* level_step(maxlevel, v_cycle), run on the same defect store, level range
\* and collaborators, end with the same solution on every level.
C2_VStepEqualsGeneralStep ==
  (Returned("cycle") /\ cycle_type = "v_cycle" /\ NoEdges) =>
    Run(Invoke(Prepared, "level_step", maxlevel, "v_cycle")).solution = solution

\* C3: from a defect store that is zero on every level, cycle() of any
\* type ends with a solution that is zero on every level.
C3_ZeroDefectZeroSolution ==
  (Returned("cycle") /\ \A l \in DOMAIN defect_in : defect_in[l] = 0) =>
    \A l \in minlevel .. maxlevel : solution[l] = 0

\* a W cycle() on three levels or more, its defect store zero, has returned
C3_Witness ==
  /\ Returned("cycle")
  /\ cycle_type = "w_cycle"
  /\ maxlevel > minlevel + 1
  /\ \A l \in DOMAIN defect_in : defect_in[l] = 0
  /\ \A l \in minlevel .. maxlevel : solution[l] = 0

\* Number of calls of `op` the last cycle made.
Count(op) == Cardinality({i \in DOMAIN calls : calls[i].op = op})

\* Number of calls of `op` the last cycle made on `level`.
CountAt(op, level) ==
  Cardinality({i \in DOMAIN calls : calls[i].op = op /\ calls[i].level = level})

\* Number of coarse solves of a W-cycle of depth D.
WCoarseSolves(D) == IF D <= 1 THEN 1 ELSE 2 ^ (D - 1)

\* C4: one cycle() calls the coarse solver once for type V, whatever the
\* depth D = maxlevel - minlevel, and for type W once when D <= 1 and
\* 2^(D-1) times when D >= 1.
C4_CoarseSolveCount ==
  Returned("cycle") =>
    /\ cycle_type = "v_cycle" => Count("coarse") = 1
    /\ cycle_type = "w_cycle" => Count("coarse") = WCoarseSolves(maxlevel - minlevel)

\* a W-cycle on the levels {0, 1, 2} has called the coarse solver twice
C4_Witness ==
  /\ Returned("cycle")
  /\ cycle_type = "w_cycle"
  /\ minlevel = 0
  /\ maxlevel = 2
  /\ Count("coarse") = 2

\* Number of calls level_step(level, c) the last cycle made.
Entries(level, c) ==
  Cardinality({i \in DOMAIN calls : /\ calls[i].op = "level_step"
                                    /\ calls[i].level = level
                                    /\ calls[i].cycle = c})

\* A level_step frame and the frame it called: the first descent keeps the
\* cycle type, a second descent is made above minlevel+1 only, never by a
\* V frame, and an F frame makes it with type V.
DescentOK(parent, child) ==
  /\ child.proc = "level_step"
  /\ child.level = parent.level - 1
  /\ parent.pc = "second" => child.cycle = parent.cycle
  /\ parent.pc = "up" =>
       /\ parent.level > minlevel + 1
       /\ parent.cycle # "v_cycle"
       /\ parent.cycle = "f_cycle" => child.cycle = "v_cycle"

\* C5: in an F-cycle every level_step(level, F) above minlevel+1 descends
\* twice, first with type F and then with type V; a level_step of type V
\* descends once; on minlevel+1 there is one descent; and the number of
\* coarse solves lies between that of a V-cycle and that of a W-cycle.
C5_FCycleDescents ==
  /\ \A i \in 1 .. (Len(stack) - 1) :
       stack[i].proc = "level_step" => DescentOK(stack[i], stack[i + 1])
  /\ (Returned("cycle") /\ cycle_type = "f_cycle") =>
       /\ Entries(maxlevel, "f_cycle") = 1
       /\ Entries(maxlevel, "v_cycle") = 0
       /\ \A l \in (minlevel + 1) .. maxlevel :
            /\ Entries(l, "w_cycle") = 0
            /\ Entries(l - 1, "f_cycle") = Entries(l, "f_cycle")
            /\ Entries(l - 1, "v_cycle") =
                 IF l > minlevel + 1
                 THEN Entries(l, "f_cycle") + Entries(l, "v_cycle")
                 ELSE Entries(l, "v_cycle")
       /\ Count("coarse") >= 1
       /\ Count("coarse") <= WCoarseSolves(maxlevel - minlevel)

\* an F-cycle of depth 3: level 2 was entered once with F and once with V
C5_Witness ==
  /\ Returned("cycle")
  /\ cycle_type = "f_cycle"
  /\ maxlevel - minlevel = 3
  /\ Entries(maxlevel - 1, "f_cycle") = 1
  /\ Entries(maxlevel - 1, "v_cycle") = 1
  /\ Count("coarse") = 3

\* The place in the calls of the call of `op` on `level`.
Pos(op, level) ==
  CHOOSE i \in DOMAIN calls : calls[i].op = op /\ calls[i].level = level

IsSolve(c) == c.op \in {"pre_smooth", "coarse", "post_smooth"}

\* The i-th smoothing or coarse-solve call of a V-cycle of depth D.
VCycleOrder(i, D) ==
  IF i <= D THEN [op |-> "pre_smooth", level |-> maxlevel - (i - 1)]
  ELSE IF i = D + 1 THEN [op |-> "coarse", level |-> minlevel]
  ELSE [op |-> "post_smooth", level |-> minlevel + (i - D - 1)]

\* C6: a V-cycle cycle() pre-smooths maxlevel down to minlevel+1, calls the
\* coarse solver on minlevel, post-smooths minlevel+1 up to maxlevel, each
\* once; on minlevel it neither smooths nor transfers; on each level the
\* restriction comes before the descent and the prolongation after it.
C6_VCycleOrder ==
  (Returned("cycle") /\ cycle_type = "v_cycle") =>
    LET D == maxlevel - minlevel
        solves == SelectSeq(calls, IsSolve)
    IN  /\ Len(solves) = 2 * D + 1
        /\ \A i \in 1 .. Len(solves) :
             /\ solves[i].op = VCycleOrder(i, D).op
             /\ solves[i].level = VCycleOrder(i, D).level
        /\ \A i \in DOMAIN calls :
             calls[i].level = minlevel => calls[i].op \in {"coarse", "level_v_step"}
        /\ \A l \in (minlevel + 1) .. maxlevel :
             /\ CountAt("restrict", l) = 1
             /\ CountAt("level_v_step", l - 1) = 1
             /\ CountAt("prolongate", l) = 1
             /\ Pos("restrict", l) < Pos("level_v_step", l - 1)
             /\ Pos("level_v_step", l - 1) < Pos("prolongate", l)

\* a V-cycle of depth 3 has made its seven smoothing and coarse-solve calls
C6_Witness ==
  /\ Returned("cycle")
  /\ cycle_type = "v_cycle"
  /\ maxlevel - minlevel = 3
  /\ Len(SelectSeq(calls, IsSolve)) = 7

\* C7: in every state the window lies in the range of the level operators,
\* matrix.minlevel <= minlevel <= maxlevel <= matrix.maxlevel, and the
\* defect store is addressable on exactly minlevel .. maxlevel.
C7_RangeInvariant ==
  /\ matrix.minlevel <= minlevel
  /\ minlevel <= maxlevel
  /\ maxlevel <= matrix.maxlevel
  /\ DOMAIN defect = minlevel .. maxlevel

\* a reinit has moved both ends of the window
C7_Witness ==
  /\ entry = "setter"
  /\ err = "none"
  /\ minlevel > matrix.minlevel
  /\ maxlevel < matrix.maxlevel
  /\ DOMAIN defect = minlevel .. maxlevel

\* The range the claim calls out of range.
BadRange(min_level, max_level) ==
  \/ min_level < matrix.minlevel
  \/ max_level > matrix.maxlevel
  \/ min_level > max_level

\* The call failed with the range error and left the window and the
\* defect store as they are now.
Rejected(after) ==
  /\ after.err = "ExcLowerRangeType"
  /\ after.minlevel = minlevel
  /\ after.maxlevel = maxlevel
  /\ after.defect = defect

\* C8: reinit(min, max), called directly or through set_maxlevel or
\* set_minlevel, with min below the level operators' minimum, max above
\* their maximum, or min > max, fails with the range error and leaves
\* minlevel, maxlevel and the defect store as they were.  Checked wherever
\* the object can be called, for every argument.
C8_FailedReinitChangesNothing ==
  CanCall =>
    \A a \in LevelArgs :
      /\ \A b \in LevelArgs : BadRange(a, b) => Rejected(reinit(Pack, a, b))
      /\ BadRange(minlevel, a) => Rejected(set_maxlevel(Pack, a))
      /\ BadRange(a, maxlevel) => Rejected(set_minlevel(Pack, a, FALSE))
      /\ (a <= maxlevel /\ BadRange(maxlevel - a, maxlevel)) =>
           Rejected(set_minlevel(Pack, a, TRUE))

\* a call has failed on an object whose window was moved and whose defect
\* store was filled
C8_Witness ==
  /\ err = "ExcLowerRangeType"
  /\ maxlevel < matrix.maxlevel
  /\ \E l \in DOMAIN defect : defect[l] # 0

\* C9: for every stored cycle type vcycle() ends with the solution, t and
\* defect stores that cycle() ends with when the stored type is V, and it
\* neither resizes nor reads nor writes defect2.
C9_VcycleIsVCycle ==
  Returned("vcycle") =>
    LET before == [Pack EXCEPT !.defect = defect_in]
        marked == [l \in DOMAIN defect2 |-> 7]
        asV == Run(cycle([before EXCEPT !.cycle_type = "v_cycle"]))
        other == Run(vcycle([before EXCEPT !.defect2 = marked]))
    IN  /\ asV.solution = solution
        /\ asV.t = t
        /\ asV.defect = defect
        /\ other.defect2 = marked
        /\ other.solution = solution
        /\ other.t = t
        /\ other.defect = defect

\* vcycle() has returned with a non-zero solution while the stored type is W
C9_Witness ==
  /\ Returned("vcycle")
  /\ cycle_type = "w_cycle"
  /\ maxlevel > minlevel + 1
  /\ solution[maxlevel] # 0

EdgeDownTerm(level) ==
  LET at == {i \in DOMAIN calls : calls[i].op = "edge_down" /\ calls[i].level = level}
  IN  IF at = {} THEN 0 ELSE EdgeVmult(level, calls[CHOOSE i \in at : TRUE].src)

C11_GeneralKeepsDefect ==
  /\ (~Idle /\ stack[1].proc = "level_step") => defect = defect_in
  /\ (Returned("cycle") /\ cycle_type # "v_cycle") => defect = defect_in

\* a W or F cycle() with all edge matrices set has returned: the restricted
\* terms are in defect2, the defect store is not zero and is as it was
C11_Witness ==
  /\ Returned("cycle")
  /\ cycle_type # "v_cycle"
  /\ edge_out /\ edge_in /\ edge_down /\ edge_up
  /\ defect = defect_in
  /\ defect[maxlevel] # 0
  /\ \E l \in minlevel .. (maxlevel - 1) : defect2[l] # 0

\* The object as it was when the last cycle was called.
Before == [Pack EXCEPT !.defect = defect_in]

\* The cycle the entry point `name` runs from `s`, to its return.
Rerun(name, s) == IF name = "cycle" THEN Run(cycle(s)) ELSE Run(vcycle(s))

\* C12: the verbosity does not influence the computation.  A cycle() or
\* vcycle() run with a verbosity other than 0 makes the collaborator calls,
\* with the arguments, and ends with the solution, t, defect and defect2
\* stores of the run with verbosity 0 from the same object; so any two
\* runs that differ in the verbosity only agree.
C12_DebugIsObservational ==
  \A name \in {"cycle", "vcycle"} :
    (Returned(name) /\ debug # 0) =>
      LET quiet == Rerun(name, [Before EXCEPT !.debug = 0])
      IN  /\ quiet.calls = calls
          /\ quiet.solution = solution
          /\ quiet.t = t
          /\ quiet.defect = defect
          /\ quiet.defect2 = defect2

\* a cycle() with verbosity 3 has written to deallog and has returned a
\* solution that is not zero
C12_Witness ==
  /\ Returned("cycle")
  /\ debug = 3
  /\ deallog > 0
  /\ collab.pre = 1
  /\ solution[maxlevel] # 0

\* The frames of the recursion: the i-th is on level maxlevel - (i-1), none
\* is below minlevel, so at most D = maxlevel - minlevel frames are nested
\* below the initial call.
DepthOK ==
  /\ Len(stack) <= (maxlevel - minlevel) + 1
  /\ \A i \in DOMAIN stack :
       /\ stack[i].level = maxlevel - (i - 1)
       /\ stack[i].level >= minlevel

\* Number of steps a call of proc with cycle type c takes from its entry
\* to its return, d levels above minlevel.
RECURSIVE Steps(_, _, _)
Steps(proc, c, d) ==
  IF d = 0 THEN 1
  ELSE IF proc = "level_v_step" THEN 2 + Steps(proc, c, d - 1)
  ELSE 3 + Steps(proc, c, d - 1)
         + (IF d > 1 /\ c = "w_cycle" THEN Steps(proc, "w_cycle", d - 1)
            ELSE IF d > 1 /\ c = "f_cycle" THEN Steps(proc, "v_cycle", d - 1)
            ELSE 0)

\* Number of steps the frame f has left, those of the calls it has made
\* and that have not returned not counted.
Left(f) ==
  LET d == f.level - minlevel
  IN  IF f.pc = "entry" THEN Steps(f.proc, f.cycle, d)
      ELSE IF f.pc = "up" THEN 1
      ELSE 2 + (IF d > 1 /\ f.cycle = "w_cycle" THEN Steps(f.proc, "w_cycle", d - 1)
                ELSE IF d > 1 /\ f.cycle = "f_cycle" THEN Steps(f.proc, "v_cycle", d - 1)
                ELSE 0)

\* Number of steps the running cycle has left.
RECURSIVE StepsLeft(_)
StepsLeft(frames) ==
  IF frames = <<>> THEN 0 ELSE Left(Head(frames)) + StepsLeft(Tail(frames))

\* The frame on top of the stack is at a place from which a step is defined.
Runnable ==
  \/ At("level_v_step", "entry")
  \/ At("level_v_step", "up")
  \/ At("level_step", "entry")
  \/ At("level_step", "second")
  \/ At("level_step", "up")

\* C13: a cycle that was called returns, for each cycle type: while it
\* runs a statement can always run, and every step takes one off a number
\* of steps left that is 0 only at the return; its recursion never nests
\* deeper than D = maxlevel - minlevel frames below the initial call, each
\* frame one level below the frame that called it.
C13_TerminatesWithinDepth ==
  [][/\ DepthOK'
     /\ ~Idle' => Runnable' /\ StepsLeft(stack') > 0
     /\ ~Idle => StepsLeft(stack') = StepsLeft(stack) - 1]_vars

\* a W-cycle of depth 3 is on its coarsest level, three frames below the
\* initial call
C13_Witness ==
  /\ Len(stack) = 4
  /\ maxlevel - minlevel = 3
  /\ stack[1].cycle = "w_cycle"
  /\ stack[4].level = minlevel

Stores == {"solution", "t", "defect", "defect2"}

\* The slots a frame on `level` may access.
OwnSlots(level) == IF level = minlevel THEN {level} ELSE {level, level - 1}

\* The state with every slot outside `own` of every store changed.
Marked(s, own) ==
  LET Mark(store) == [l \in DOMAIN store |->
                        IF l \in own THEN store[l] ELSE store[l] + 7]
  IN  [s EXCEPT !.solution = Mark(@), !.t = Mark(@), !.defect = Mark(@),
                !.defect2 = Mark(@)]

\* C14: the statements of a frame of level_v_step(level) or
\* level_step(level, c) between two calls write no slot of solution, t,
\* defect and defect2 other than those of level and level-1 (of level
\* alone on minlevel), and read no other slot: with every other slot
\* changed they make the same calls and leave the same values in their
\* own slots.
C14_FrameTouchesOwnSlots ==
  ~Idle =>
    LET s == Pack
        own == OwnSlots(TopLevel)
        other == Marked(s, own)
        a == Step(s)
        b == Step(other)
    IN  /\ a.calls = b.calls
        /\ a.stack = b.stack
        /\ \A f \in Stores : \A l \in DOMAIN s[f] :
             IF l \in own
             THEN b[f][l] = a[f][l]
             ELSE a[f][l] = s[f][l] /\ b[f][l] = other[f][l]

\* a frame between maxlevel and minlevel is about to run while the
\* solution on the level above it is not zero
C14_Witness ==
  /\ ~Idle
  /\ TopLevel > minlevel
  /\ TopLevel < maxlevel
  /\ stack[Len(stack)].pc = "entry"
  /\ solution[TopLevel + 1] # 0

\* level_v_step(level) has just called level_v_step(level-1).
VDescended == At("level_v_step", "entry") /\ Len(stack) >= 2

\* C15: when level_v_step(level) makes its recursive call, defect[level-1]
\* is what it was before, less edge_down(level, solution[level]) when
\* edge_down is set, plus the restriction of the true residual
\* defect[level] - A*solution[level] - edge_out(level, solution[level])
\* (the edge_out term when edge_out is set).  No statement of the cycle
\* wrote defect[level-1] earlier, so what it was before is defect_in.
C15_CoarseDefectBeforeDescent ==
  VDescended =>
    LET level == TopLevel + 1
        sol == solution[level]
        down == IF edge_down THEN EdgeVmult(level, sol) ELSE 0
        out == IF edge_out THEN EdgeVmultAdd(level, 0, sol) ELSE 0
        residual == defect[level] - MatrixVmult(level, sol) - out
    IN  defect[level - 1] =
          (defect_in[level - 1] - down) + RestrictAndAdd(level, 0, residual)

\* a descent with edge_down and edge_out set, from a level whose solution
\* is not zero, to a level whose defect was not zero
C15_Witness ==
  /\ VDescended
  /\ edge_down
  /\ edge_out
  /\ solution[TopLevel + 1] # 0
  /\ defect_in[TopLevel] # 0

\* level_step(level, c) has just made its first call of level_step(level-1, c).
GDescended ==
  /\ At("level_step", "entry")
  /\ Len(stack) >= 2
  /\ stack[Len(stack) - 1].pc = "second"

\* C16: when level_step(level, c) makes its first recursive call, t[level]
\* is the true residual: the local right-hand side defect[level] -
\* defect2[level], less A*solution[level], less the edge_out term when
\* edge_out is set; and defect2[level-1] holds the restriction of it.
C16_GeneralResidual ==
  GDescended =>
    LET level == TopLevel + 1
        sol == solution[level]
        out == IF edge_out THEN EdgeVmultAdd(level, 0, sol) ELSE 0
        down == IF edge_down THEN EdgeVmultAdd(level, 0, sol) ELSE 0
        residual == (defect[level] - defect2[level]) - MatrixVmult(level, sol) - out
    IN  /\ t[level] = residual
        /\ defect2[level - 1] =
             RestrictAndAdd(level, RestrictAndAdd(level, 0, defect2[level]) + down,
                            residual)

\* The right-hand side the statements after the recursive calls of
\* level_step hand to the post-smoother.
PostSmoothTarget ==
  LET after == g_up(Pack)
  IN  after.calls[Len(after.calls)].src

\* C17: in level_step(level, c) with edge_in and edge_up both set the
\* post-smoother is given defect[level] - defect2[level]
\* - edge_in^T(level, solution[level]) - edge_up^T(level, solution[level-1]),
\* solution[level] being the solution after the coarse grid correction.
C17_PostSmoothTargetBothEdges ==
  (At("level_step", "up") /\ edge_in /\ edge_up) =>
    LET level == TopLevel
        corrected == solution[level] + Prolongate(level, solution[level - 1])
    IN  PostSmoothTarget =
          defect[level] - defect2[level] - EdgeVmult(level, corrected)
            - EdgeVmult(level, solution[level - 1])

\* A frame is at its entry.
AtEntry == ~Idle /\ stack[Len(stack)].pc = "entry"

\* The frame at its entry was called by the second descent of level_step.
SecondDescent ==
  /\ AtEntry
  /\ Len(stack) >= 2
  /\ stack[Len(stack) - 1].proc = "level_step"
  /\ stack[Len(stack) - 1].pc = "up"

\* C18 as claimed: at every entry of level_v_step(l) or level_step(l, c),
\* the second descent of W and F cycles included, solution[l] = 0.
C18_SolutionZeroAtEntry == AtEntry => solution[TopLevel] = 0

\* The solution the call before the last record of the calls returned: the
\* coarse solve or the post-smoothing that ended the first descent.
FirstDescentResult ==
  LET c == calls[Len(calls) - 1]
  IN  IF c.op = "coarse"
      THEN CoarseSolve(c.level, c.src)
      ELSE Smooth(collab.post, c.level, c.dst, c.src)

\* C18, amended: solution[l] = 0 at the entry of the initial call, of every
\* call of level_v_step and of every first descent of level_step; at the
\* entry of a second descent of a W or F cycle solution[l] is what the
\* first descent left there.
C18_SolutionAtEntry ==
  AtEntry =>
    IF SecondDescent
    THEN /\ calls[Len(calls) - 1].op \in {"coarse", "post_smooth"}
         /\ calls[Len(calls) - 1].level = TopLevel
         /\ solution[TopLevel] = FirstDescentResult
    ELSE solution[TopLevel] = 0

\* a second descent is entered with a solution that is not zero
C18_Witness == SecondDescent /\ solution[TopLevel] # 0

\* The call installed the window min_level .. maxlevel, keeping maxlevel.
Installed(after, min_level) ==
  /\ after.err = "none"
  /\ after.minlevel = min_level
  /\ after.maxlevel = maxlevel
  /\ after.defect = Resize(min_level, maxlevel)

\* C19: set_minlevel(l, relative) is reinit(maxlevel - l, maxlevel) when
\* relative is set and reinit(l, maxlevel) otherwise; the difference is
\* unsigned, so for relative and l > maxlevel it wraps to a value above
\* maxlevel and the call fails the range check, leaving minlevel and
\* maxlevel as they were; a new minimum in range is installed with
\* maxlevel kept.  Checked wherever the object can be called, for every l.
C19_SetMinlevel ==
  CanCall =>
    LET s == Pack
    IN  \A l \in LevelArgs :
          LET wrapped == (maxlevel - l) % UIntModulus
              absolute == set_minlevel(s, l, FALSE)
              relative == set_minlevel(s, l, TRUE)
          IN  /\ IF BadRange(l, maxlevel)
                 THEN Rejected(absolute)
                 ELSE Installed(absolute, l)
              /\ l <= maxlevel =>
                    /\ wrapped = maxlevel - l
                    /\ IF BadRange(wrapped, maxlevel)
                       THEN Rejected(relative)
                       ELSE Installed(relative, wrapped)
              /\ l > maxlevel =>
                    /\ wrapped >= matrix.minlevel
                    /\ maxlevel <= matrix.maxlevel
                    /\ wrapped > maxlevel
                    /\ wrapped = UIntModulus - (l - maxlevel)
                    /\ Rejected(relative)

\* the state a relative set_minlevel with l > maxlevel ends in, on a
\* window whose maximum was lowered
C19_Witness ==
  /\ err = "ExcLowerRangeType"
  /\ maxlevel < matrix.maxlevel
  /\ \E l \in LevelArgs :
       /\ l > maxlevel
       /\ set_minlevel([Pack EXCEPT !.err = "none"], l, TRUE) = Pack

\* The vector the last pre-smoothing on a level was given.
PreSmoothTarget(level) ==
  LET at == {i \in 1 .. Len(calls) :
               calls[i].op = "pre_smooth" /\ calls[i].level = level}
      last == CHOOSE i \in at : \A j \in at : j <= i
  IN  calls[last].src

\* C20: in level_step(level, c) above the coarsest level with neither
\* edge_in nor edge_up set, t[level] still holds the prolongated coarse
\* correction when it is recombined: the post-smoother is given
\* defect[level] - defect2[level] - prolongate(level, solution[level-1]),
\* which differs from the pre-smoothing target defect[level] -
\* defect2[level] exactly when the prolongated correction is not zero.
C20_PostSmoothTargetNoEdges ==
  (At("level_step", "up") /\ ~edge_in /\ ~edge_up) =>
    LET level == TopLevel
        p == Prolongate(level, solution[level - 1])
        post == PostSmoothTarget
        pre == PreSmoothTarget(level)
    IN  /\ level > minlevel
        /\ post = defect[level] - defect2[level] - p
        /\ pre = defect[level] - defect2[level]
        /\ (post # pre) <=> (p # 0)

\* level_step is about to prolongate a coarse correction that is not zero,
\* without edge_in and edge_up
C20_Witness ==
  /\ At("level_step", "up")
  /\ ~edge_in
  /\ ~edge_up
  /\ Prolongate(TopLevel, solution[TopLevel - 1]) # 0

====
